---- MODULE Spec2Model ----
(***************************************************************************)
(* A model of serve_playlists.py: the command-line bootstrap (main), the   *)
(* best-effort address discovery (_local_ips) and the request handler      *)
(* (CorsRequestHandler) on top of http.server.SimpleHTTPRequestHandler and *)
(* socketserver.TCPServer.  Python strings whose characters matter (the    *)
(* --port text, the dotted addresses) are sequences of one-character       *)
(* strings.                                                                *)
(***************************************************************************)
EXTENDS Integers, Sequences, FiniteSets, TLC

VARIABLES
  pc,          \* position of main
  port,        \* args.port
  dirExists,   \* root.exists()
  sock,        \* the listening socket: "none", "listening" or "closed"
  sockCreated, \* socket.socket() was called by TCPServer.__init__
  bindCalled,  \* socket.bind() was called
  stdout,      \* the lines main printed
  stderr,      \* what the interpreter or argparse wrote on exit
  exitCode,    \* process exit status, -1 while running
  net,         \* what the two discovery steps met
  ips,         \* the list _local_ips returned
  events,      \* the startup events in the order they happened
  interruptAt, \* where KeyboardInterrupt arrived, "" if it did not
  handled,     \* requests handled by serve_forever
  req,         \* the last request
  h            \* the handler object after the last request

vars == <<pc, port, dirExists, sock, sockCreated, bindCalled, stdout, stderr,
          exitCode, net, ips, events, interruptAt, handled, req, h>>

\* Number of requests serve_forever handles before the model stops accepting.
MaxRequests == 2

(***************************************************************************)
(* Strings                                                                 *)
(***************************************************************************)
Digits == <<"0", "1", "2", "3", "4", "5", "6", "7", "8", "9">>

IsDigit(c) == \E i \in 1..10 : Digits[i] = c

DigitValue(c) == (CHOOSE i \in 1..10 : Digits[i] = c) - 1

\* ord(c) for the characters of a dotted address
Ord(c) == IF c = "." THEN 46 ELSE 48 + DigitValue(c)

RECURSIVE DecimalValue(_)
DecimalValue(s) ==
  IF s = <<>> THEN 0
  ELSE 10 * DecimalValue(SubSeq(s, 1, Len(s) - 1)) + DigitValue(s[Len(s)])

\* int(text) as argparse applies it for type=int: "ValueError" or the integer
ParseInt(text) ==
  LET signed == text # <<>> /\ text[1] \in {"+", "-"}
      body == IF signed THEN Tail(text) ELSE text
  IN IF body = <<>> \/ \E i \in 1..Len(body) : ~IsDigit(body[i])
       THEN [ok |-> FALSE, value |-> 0]
       ELSE [ok |-> TRUE,
             value |-> IF signed /\ text[1] = "-" THEN 0 - DecimalValue(body)
                       ELSE DecimalValue(body)]

RECURSIVE Itoa(_)
Itoa(n) == IF n < 10 THEN <<Digits[n + 1]>> ELSE Itoa(n \div 10) \o <<Digits[(n % 10) + 1]>>

\* the dotted-quad text the socket module returns for an IPv4 address
inet_ntoa(a) == Itoa(a[1]) \o <<".">> \o Itoa(a[2]) \o <<".">> \o Itoa(a[3]) \o <<".">> \o Itoa(a[4])

\* str.startswith
StartsWith(s, p) == Len(s) >= Len(p) /\ SubSeq(s, 1, Len(p)) = p

\* s < t for Python strings: lexicographic by code point
RECURSIVE StrLess(_, _)
StrLess(s, t) ==
  IF t = <<>> THEN FALSE
  ELSE IF s = <<>> THEN TRUE
  ELSE IF Ord(s[1]) # Ord(t[1]) THEN Ord(s[1]) < Ord(t[1])
  ELSE StrLess(Tail(s), Tail(t))

\* sorted(set of strings)
RECURSIVE Sorted(_)
Sorted(S) ==
  IF S = {} THEN <<>>
  ELSE LET m == CHOOSE x \in S : \A y \in S \ {x} : StrLess(x, y)
       IN <<m>> \o Sorted(S \ {m})

(***************************************************************************)
(* _local_ips                                                              *)
(***************************************************************************)
\* The addresses the name service can return for the hostname.
HostAddrs == {<<127, 0, 1, 1>>, <<10, 0, 0, 5>>, <<12, 7, 0, 1>>}

\* The local endpoint the routing stack can pick for the UDP socket.
UdpAddrs == {<<127, 0, 0, 1>>, <<10, 0, 0, 5>>, <<9, 0, 0, 2>>}

\* Failures the two steps can meet (all subclasses of Exception).
StepErrors == {"gaierror", "OSError", "PermissionError"}

HostOutcomes ==
  {[exc |-> e, addrs |-> {}] : e \in {"gaierror", "OSError"}}
    \cup {[exc |-> "none", addrs |-> A] : A \in SUBSET HostAddrs}

UdpOutcomes ==
  {[exc |-> e, addrs |-> {}] : e \in {"OSError", "PermissionError"}}
    \cup {[exc |-> "none", addrs |-> {a}] : a \in UdpAddrs}

\* an except clause that names only the resolver's error
ExceptOnlyGaierror(exc) == exc = "gaierror"

\* an except clause that catches nothing the steps raise
ExceptNothing(exc) == FALSE

\* `except Exception:` catches this exception
ExceptException(exc) == exc \in StepErrors

LoopbackPrefix == <<"1", "2", "7", ".">>

\* lines 46-53: the hostname step on the set built so far
HostStep(acc, host) ==
  IF host.exc # "none"
    THEN IF ExceptException(host.exc) THEN acc ELSE [acc EXCEPT !.raised = host.exc]
    ELSE [acc EXCEPT !.ips = @ \cup {inet_ntoa(a) : a \in
                       {b \in host.addrs : ~StartsWith(inet_ntoa(b), LoopbackPrefix)}}]

\* the UDP step without the loopback test of line 60
UdpStepUnfiltered(acc, udp) ==
  IF acc.raised # "none" \/ udp.exc # "none" THEN acc
  ELSE [acc EXCEPT !.ips = @ \cup {inet_ntoa(a) : a \in udp.addrs}]

\* lines 56-63: the UDP socket step on the set built so far
UdpStep(acc, udp) ==
  IF acc.raised # "none" THEN acc
  ELSE IF udp.exc # "none"
    THEN IF ExceptException(udp.exc) THEN acc ELSE [acc EXCEPT !.raised = udp.exc]
    ELSE [acc EXCEPT !.ips = @ \cup {inet_ntoa(a) : a \in
                       {b \in udp.addrs : inet_ntoa(b) # <<>>
                                           /\ ~StartsWith(inet_ntoa(b), LoopbackPrefix)}}]

\* line 65
SortedIps(S) == Sorted(S)

\* lines 44-65: [raised, value]
_local_ips(host, udp) ==
  LET acc == UdpStep(HostStep([raised |-> "none", ips |-> {}], host), udp)
  IN [raised |-> acc.raised,
      value |-> IF acc.raised = "none" THEN SortedIps(acc.ips) ELSE <<>>]

(***************************************************************************)
(* The request handler.  A handler object is a record: request_version,    *)
(* command and requestline as parse_request sets them, the header buffer,  *)
(* what was written to the connection (head: the flushed header block,     *)
(* body: the chunks after it) and the lines logged.  cors tells the class: *)
(* CorsRequestHandler (TRUE) or the SimpleHTTPRequestHandler it extends.   *)
(***************************************************************************)
Commands == {"GET", "HEAD", "OPTIONS", "POST"}

Versions == {"HTTP/0.9", "HTTP/1.0", "HTTP/1.1", "HTTP/2.0", "FOO/1.1"}

\* Request targets, over a root holding a.txt, the directory sub (no index)
\* and the directory idx (with index.html).
Paths == {"/a.txt", "/missing", "/sub", "/sub/", "/idx/", "/a.txt/"}

\* If-Modified-Since: absent, earlier than the file's mtime, or not earlier
ImsValues == {"absent", "before", "after"}

RequestLines ==
  {<<>>} \cup {<<c>> : c \in Commands}
    \cup {<<c, p>> : c \in Commands, p \in Paths}
    \cup {<<c, p, v>> : c \in Commands, p \in Paths, v \in Versions}
    \cup {<<c, p, "extra", v>> : c \in {"GET"}, p \in {"/a.txt"}, v \in Versions}

\* long: the request line exceeds 65536 bytes
Requests ==
  {[long |-> FALSE, words |-> w, ims |-> i] : w \in RequestLines, i \in ImsValues}
    \cup {[long |-> TRUE, words |-> <<"GET", "/a.txt", "HTTP/1.1">>, ims |-> "absent"]}

NoRequest == [long |-> FALSE, words |-> <<>>, ims |-> "absent"]

NewHandler(isCors) ==
  [cors |-> isCors, request_version |-> "", command |-> "", requestline |-> <<>>,
   buf |-> <<>>, head |-> <<>>, body |-> <<>>, log |-> <<>>]

\* the (major, minor) parse_request reads from the version word; <<>> is ValueError
VersionNumber(v) ==
  CASE v = "HTTP/0.9" -> <<0, 9>>
    [] v = "HTTP/1.0" -> <<1, 0>>
    [] v = "HTTP/1.1" -> <<1, 1>>
    [] v = "HTTP/2.0" -> <<2, 0>>
    [] OTHER -> <<>>

\* str(code)
Str(code) ==
  CASE code = 200 -> "200" [] code = 301 -> "301" [] code = 304 -> "304"
    [] code = 400 -> "400" [] code = 404 -> "404" [] code = 414 -> "414"
    [] code = 501 -> "501" [] code = 505 -> "505" [] OTHER -> "???"

\* responses[code][0]
Phrase(code) ==
  CASE code = 200 -> "OK" [] code = 301 -> "Moved Permanently"
    [] code = 304 -> "Not Modified" [] code = 400 -> "Bad Request"
    [] code = 404 -> "Not Found" [] code = 414 -> "Request-URI Too Long"
    [] code = 501 -> "Not Implemented"
    [] code = 505 -> "HTTP Version Not Supported" [] OTHER -> "???"

\* a log_message that prints the message without the time
LogMessageNoTime(hd, format, args) ==
  [hd EXCEPT !.log = Append(@,
     [stream |-> "stdout", prefix |-> <<>>, format |-> format, args |-> args])]

\* CorsRequestHandler.log_message prints the time and the message to stdout;
\* the inherited one writes the client address, the time and the message to stderr
log_message(hd, format, args) ==
  [hd EXCEPT !.log = Append(@,
     IF hd.cors
       THEN [stream |-> "stdout", prefix |-> <<"log_date_time_string">>,
             format |-> format, args |-> args]
       ELSE [stream |-> "stderr",
             prefix |-> <<"address_string", "- -", "log_date_time_string">>,
             format |-> format, args |-> args])]

log_request(hd, code) ==
  log_message(hd, "\"%s\" %s %s", <<hd.requestline, <<Str(code)>>, <<"-">> >>)

log_error(hd, code, message) ==
  log_message(hd, "code %d, message %s", << <<Str(code)>>, <<message>> >>)

send_response_only(hd, code, message) ==
  IF hd.request_version # "HTTP/0.9"
    THEN [hd EXCEPT !.buf = Append(@, <<"HTTP/1.0", Str(code), message>>)]
    ELSE hd

send_header(hd, keyword, value) ==
  IF hd.request_version # "HTTP/0.9"
    THEN [hd EXCEPT !.buf = Append(@, <<keyword, value>>)]
    ELSE hd

send_response(hd, code, message) ==
  send_header(
    send_header(send_response_only(log_request(hd, code), code, message),
                "Server", "version_string"),
    "Date", "date_time_string")

\* BaseHTTPRequestHandler.end_headers: the blank line, then flush_headers
BaseEndHeaders(hd) ==
  IF hd.request_version # "HTTP/0.9"
    THEN [hd EXCEPT !.head = @ \o hd.buf \o << <<>> >>, !.buf = <<>>]
    ELSE hd

\* end_headers with a narrower Access-Control-Allow-Methods value
CorsEndHeadersGetOnly(hd) ==
  BaseEndHeaders(
    send_header(
      send_header(
        send_header(hd, "Access-Control-Allow-Origin", "*"),
        "Access-Control-Allow-Methods", "GET"),
      "Access-Control-Allow-Headers", "X-Requested-With, Content-Type"))

\* end_headers that sends Access-Control-Allow-Origin twice
CorsEndHeadersTwice(hd) ==
  BaseEndHeaders(
    send_header(
      send_header(
        send_header(
          send_header(hd, "Access-Control-Allow-Origin", "*"),
          "Access-Control-Allow-Origin", "*"),
        "Access-Control-Allow-Methods", "GET, OPTIONS"),
      "Access-Control-Allow-Headers", "X-Requested-With, Content-Type"))

\* CorsRequestHandler.end_headers
CorsEndHeaders(hd) ==
  BaseEndHeaders(
    send_header(
      send_header(
        send_header(hd, "Access-Control-Allow-Origin", "*"),
        "Access-Control-Allow-Methods", "GET, OPTIONS"),
      "Access-Control-Allow-Headers", "X-Requested-With, Content-Type"))

\* self.end_headers(), dispatched on the handler's class
end_headers(hd) == IF hd.cors THEN CorsEndHeaders(hd) ELSE BaseEndHeaders(hd)

write_body(hd, chunk) == [hd EXCEPT !.body = Append(@, chunk)]

send_error(hd, code, message) ==
  LET h1 == send_header(send_response(log_error(hd, code, message), code, message),
                        "Connection", "close")
      hasBody == code >= 200 /\ code \notin {204, 205, 304}
      h2 == IF hasBody
              THEN send_header(send_header(h1, "Content-Type", "text/html;charset=utf-8"),
                               "Content-Length", "len(error page)")
              ELSE h1
      h3 == end_headers(h2)
  IN IF hd.command # "HEAD" /\ hasBody
       THEN write_body(h3, <<"error page", Str(code), message>>)
       ELSE h3

\* What translate_path and the file system give for a request target.
IsDir(path) == path \in {"/sub", "/sub/", "/idx/"}

EndsWithSlash(path) == path \in {"/sub/", "/idx/", "/a.txt/"}

HasIndex(path) == path = "/idx/"

\* open(path, 'rb') succeeds
CanOpen(path) == path \in {"/a.txt", "/idx/"}

FileOf(path) == IF path = "/idx/" THEN "/idx/index.html" ELSE path

\* SimpleHTTPRequestHandler.list_directory: the listing page
list_directory(hd, path) ==
  LET h1 == send_header(
              send_header(send_response(hd, 200, Phrase(200)),
                          "Content-type", "text/html; charset=utf-8"),
              "Content-Length", "len(listing)")
  IN [hd |-> end_headers(h1), f |-> <<"listing", path>>]

\* SimpleHTTPRequestHandler.send_head: [hd, f], f the file to copy or <<>> for None
send_head(hd, path, ims) ==
  IF IsDir(path) /\ ~EndsWithSlash(path)
    THEN [hd |-> end_headers(
                   send_header(
                     send_header(send_response(hd, 301, Phrase(301)),
                                 "Location", "path + /"),
                     "Content-Length", "0")),
          f |-> <<>>]
  ELSE IF IsDir(path) /\ ~HasIndex(path)
    THEN list_directory(hd, path)
  ELSE IF (~IsDir(path) /\ EndsWithSlash(path)) \/ ~CanOpen(path)
    THEN [hd |-> send_error(hd, 404, "File not found"), f |-> <<>>]
  ELSE IF ims = "after"
    THEN [hd |-> end_headers(send_response(hd, 304, Phrase(304))), f |-> <<>>]
  ELSE [hd |-> end_headers(
                 send_header(
                   send_header(
                     send_header(send_response(hd, 200, Phrase(200)),
                                 "Content-type", "guess_type"),
                     "Content-Length", "st_size"),
                   "Last-Modified", "st_mtime")),
        f |-> <<"file", FileOf(path)>>]

do_GET(hd, path, ims) ==
  LET r == send_head(hd, path, ims)
  IN IF r.f # <<>> THEN write_body(r.hd, r.f) ELSE r.hd

do_HEAD(hd, path, ims) == send_head(hd, path, ims).hd

\* BaseHTTPRequestHandler.parse_request: [ok, hd]
parse_request(hd, words) ==
  LET h0 == [hd EXCEPT !.command = "", !.request_version = "HTTP/0.9",
                       !.requestline = words]
      n == Len(words)
      version == words[n]
      number == VersionNumber(version)
      h1 == IF n >= 3 THEN [h0 EXCEPT !.request_version = version] ELSE h0
  IN IF n = 0 THEN [ok |-> FALSE, hd |-> h0]
     ELSE IF n >= 3 /\ number = <<>>
       THEN [ok |-> FALSE, hd |-> send_error(h0, 400, "Bad request version")]
     ELSE IF n >= 3 /\ number[1] >= 2
       THEN [ok |-> FALSE, hd |-> send_error(h0, 505, "Invalid HTTP version")]
     ELSE IF ~(2 <= n /\ n <= 3)
       THEN [ok |-> FALSE, hd |-> send_error(h1, 400, "Bad request syntax")]
     ELSE IF n = 2 /\ words[1] # "GET"
       THEN [ok |-> FALSE, hd |-> send_error(h1, 400, "Bad HTTP/0.9 request type")]
     ELSE [ok |-> TRUE, hd |-> [h1 EXCEPT !.command = words[1]]]

\* BaseHTTPRequestHandler.handle_one_request on a fresh handler of the class
handle_one_request(isCors, r) ==
  IF r.long
    THEN send_error(NewHandler(isCors), 414, Phrase(414))
  ELSE LET p == parse_request(NewHandler(isCors), r.words)
       IN IF ~p.ok THEN p.hd
          ELSE IF p.hd.command = "GET" THEN do_GET(p.hd, r.words[2], r.ims)
          ELSE IF p.hd.command = "HEAD" THEN do_HEAD(p.hd, r.words[2], r.ims)
          ELSE send_error(p.hd, 501, "Unsupported method")

\* line 42: the handler class the server is given
handler(r) == handle_one_request(TRUE, r)

\* the same request on the static file handler alone
SimpleHandler(r) == handle_one_request(FALSE, r)

(***************************************************************************)
(* main                                                                    *)
(***************************************************************************)
\* The --port option: absent, or given with this text.
PortTexts ==
  {<<"a", "b", "c">>, <<"-", "1">>, <<"0">>, <<"8", "0", "8", "0">>,
   <<"6", "5", "5", "3", "6">>}

PortArgv ==
  {[given |-> FALSE, text |-> <<>>]} \cup {[given |-> TRUE, text |-> t] : t \in PortTexts}

\* Ports another process already listens on.
InUsePorts == {8080}

\* What socket.bind accepts as a port.
BindablePorts == 0..65535

\* line 33: args.port for the option as given: [ok, value]
ArgPort(a) == IF a.given THEN ParseInt(a.text) ELSE [ok |-> TRUE, value |-> 8000]

\* a directory test that lets every path through
DirAlwaysFound(exists) == FALSE

\* line 39: the test that ends main with "Directory not found"
DirNotFound(exists) == ~exists

\* line 67, TCPServer.__init__: server_bind raises this, or "none"
ServerBind(p) ==
  IF p \notin BindablePorts THEN "OverflowError"
  ELSE IF p \in InUsePorts THEN "OSError"
  ELSE "none"

Line(text, arg) == [text |-> text, arg |-> arg]

\* lines 70-73: the LAN lines for the list found
LanLines(list, p) ==
  IF list # <<>>
    THEN <<Line("Local network URLs:", <<>>)>>
           \o [i \in 1..Len(list) |-> Line("  http://{ip}:{port}/", <<list[i], p>>)]
    ELSE <<>>

NoOutcome == [exc |-> "none", addrs |-> {}]

Init ==
  /\ pc = "parse"
  /\ port = 8000
  /\ dirExists = FALSE
  /\ sock = "none"
  /\ sockCreated = FALSE
  /\ bindCalled = FALSE
  /\ stdout = <<>>
  /\ stderr = ""
  /\ exitCode = -1
  /\ net = [host |-> NoOutcome, udp |-> NoOutcome]
  /\ ips = <<>>
  /\ events = <<>>
  /\ interruptAt = ""
  /\ handled = 0
  /\ req = NoRequest
  /\ h = NewHandler(TRUE)

\* the process ends with this status and this text on stderr
Exit(code, message) ==
  /\ pc' = "exited"
  /\ exitCode' = code
  /\ stderr' = message

\* lines 32-36: parser.parse_args()
ParseArgs ==
  /\ pc = "parse"
  /\ \E a \in PortArgv :
       LET parsed == ArgPort(a)
       IN IF ~parsed.ok
            THEN /\ Exit(2, "usage: argument --port: invalid int value")
                 /\ UNCHANGED port
            ELSE /\ port' = parsed.value
                 /\ pc' = "resolve"
                 /\ UNCHANGED <<exitCode, stderr>>
  /\ UNCHANGED <<dirExists, sock, sockCreated, bindCalled, stdout, net, ips, events,
                 interruptAt, handled, req, h>>

\* lines 38-42
ValidateDir ==
  /\ pc = "resolve"
  /\ \E e \in BOOLEAN :
       /\ dirExists' = e
       /\ IF DirNotFound(e)
            THEN Exit(1, "Directory not found")
            ELSE /\ pc' = "bind"
                 /\ UNCHANGED <<exitCode, stderr>>
  /\ events' = Append(events, "validate")
  /\ UNCHANGED <<port, sock, sockCreated, bindCalled, stdout, net, ips, interruptAt,
                 handled, req, h>>

\* line 67: TCPServer((host, port), handler); a failed bind closes the socket
Bind ==
  /\ pc = "bind"
  /\ sockCreated' = TRUE
  /\ bindCalled' = TRUE
  /\ LET err == ServerBind(port)
     IN IF err # "none"
          THEN /\ sock' = "closed"
               /\ Exit(1, err)
               /\ UNCHANGED events
          ELSE /\ sock' = "listening"
               /\ pc' = "banner"
               /\ events' = Append(events, "bind")
               /\ UNCHANGED <<exitCode, stderr>>
  /\ UNCHANGED <<port, dirExists, stdout, net, ips, interruptAt, handled, req, h>>

\* line 68
PrintServing ==
  /\ pc = "banner"
  /\ stdout' = Append(stdout, Line("Serving {root} at http://{host}:{port}/", <<port>>))
  /\ pc' = "discover"
  /\ events' = Append(events, "url")
  /\ UNCHANGED <<port, dirExists, sock, sockCreated, bindCalled, stderr, exitCode, net,
                 ips, interruptAt, handled, req, h>>

\* line 69: an exception out of _local_ips leaves the with block and ends main
Discover ==
  /\ pc = "discover"
  /\ \E host \in HostOutcomes, udp \in UdpOutcomes :
       LET r == _local_ips(host, udp)
       IN /\ net' = [host |-> host, udp |-> udp]
          /\ IF r.raised # "none"
               THEN /\ sock' = "closed"
                    /\ Exit(1, r.raised)
                    /\ UNCHANGED ips
               ELSE /\ ips' = r.value
                    /\ pc' = "lan"
                    /\ UNCHANGED <<sock, exitCode, stderr>>
  /\ events' = Append(events, "discover")
  /\ UNCHANGED <<port, dirExists, sockCreated, bindCalled, stdout, interruptAt, handled,
                 req, h>>

\* lines 70-73
PrintLan ==
  /\ pc = "lan"
  /\ stdout' = stdout \o LanLines(ips, port)
  /\ pc' = "instruct"
  /\ events' = Append(events, "lan")
  /\ UNCHANGED <<port, dirExists, sock, sockCreated, bindCalled, stderr, exitCode, net,
                 ips, interruptAt, handled, req, h>>

\* line 74
PrintInstruction ==
  /\ pc = "instruct"
  /\ stdout' = Append(stdout, Line("Press Ctrl+C to stop.", <<>>))
  /\ pc' = "loop"
  /\ events' = Append(events, "instruction")
  /\ UNCHANGED <<port, dirExists, sock, sockCreated, bindCalled, stderr, exitCode, net,
                 ips, interruptAt, handled, req, h>>

\* lines 75-76: enter the try block and serve_forever
ServeForever ==
  /\ pc = "loop"
  /\ pc' = "serve"
  /\ events' = Append(events, "serve_forever")
  /\ UNCHANGED <<port, dirExists, sock, sockCreated, bindCalled, stdout, stderr, exitCode,
                 net, ips, interruptAt, handled, req, h>>

\* line 76: serve_forever accepts one connection and runs the handler on it
HandleRequest ==
  /\ pc = "serve"
  /\ handled < MaxRequests
  /\ \E r \in Requests :
       /\ req' = r
       /\ h' = handler(r)
  /\ pc' = "handled"
  /\ handled' = handled + 1
  /\ UNCHANGED <<port, dirExists, sock, sockCreated, bindCalled, stdout, stderr,
                 exitCode, net, ips, events, interruptAt>>

\* line 76: serve_forever closes the connection, drops the handler object and
\* waits for the next connection
ShutdownRequest ==
  /\ pc = "handled"
  /\ pc' = "serve"
  /\ req' = NoRequest
  /\ h' = NewHandler(TRUE)
  /\ UNCHANGED <<port, dirExists, sock, sockCreated, bindCalled, stdout, stderr,
                 exitCode, net, ips, events, interruptAt, handled>>

\* KeyboardInterrupt inside the with block but outside the try of lines 75-78:
\* the with block closes the socket, nothing catches the exception and the
\* interpreter ends the process by SIGINT (status 130)
InterruptStartup ==
  /\ pc \in {"banner", "discover", "lan", "instruct", "loop"}
  /\ interruptAt' = pc
  /\ sock' = "closed"
  /\ Exit(130, "KeyboardInterrupt")
  /\ UNCHANGED <<port, dirExists, sockCreated, bindCalled, stdout, net, ips, events,
                 handled, req, h>>

\* lines 77-78: KeyboardInterrupt inside serve_forever
InterruptServe ==
  /\ pc \in {"serve", "handled"}
  /\ interruptAt' = pc
  /\ stdout' = Append(stdout, Line("Shutting down...", <<>>))
  /\ sock' = "closed"
  /\ pc' = "exited"
  /\ exitCode' = 0
  /\ UNCHANGED <<port, dirExists, sockCreated, bindCalled, stderr, net, ips, events,
                 handled, req, h>>

Next ==
  \/ ParseArgs
  \/ ValidateDir
  \/ Bind
  \/ PrintServing
  \/ Discover
  \/ PrintLan
  \/ PrintInstruction
  \/ ServeForever
  \/ HandleRequest
  \/ ShutdownRequest
  \/ InterruptStartup
  \/ InterruptServe

Spec == Init /\ [][Next]_vars

(***************************************************************************)
(* Properties                                                              *)
(***************************************************************************)
Happened(e) == \E i \in 1..Len(events) : events[i] = e

Range(q) == {q[i] : i \in 1..Len(q)}

\* the handler wrote something to the connection
Responded(hd) == hd.head # <<>> \/ hd.body # <<>>

\* the header lines of the flushed block: between the status line and the blank line
HeaderList(hd) == IF hd.head = <<>> THEN <<>> ELSE SubSeq(hd.head, 2, Len(hd.head) - 1)

StatusLine(hd) == IF hd.head = <<>> THEN <<>> ELSE hd.head[1]

Count(q, x) == Cardinality({i \in 1..Len(q) : q[i] = x})

CorsHeaderSet ==
  <<<<"Access-Control-Allow-Origin", "*">>,
    <<"Access-Control-Allow-Methods", "GET, OPTIONS">>,
    <<"Access-Control-Allow-Headers", "X-Requested-With, Content-Type">>>>

CorsNames == {CorsHeaderSet[i][1] : i \in 1..3}

\* all three headers, each once, and no header of those names with another value
CarriesCors(hd) ==
  /\ \A i \in 1..3 : Count(HeaderList(hd), CorsHeaderSet[i]) = 1
  /\ \A j \in 1..Len(HeaderList(hd)) :
       HeaderList(hd)[j][1] \in CorsNames => HeaderList(hd)[j] \in Range(CorsHeaderSet)

\* C1 as stated: every response the handler sends, whatever the method and the
\* status, carries the three CORS headers with exactly the documented values.
C1_EveryResponseCarriesCors ==
  (pc = "handled" /\ Responded(h)) => CarriesCors(h)

\* C1 amended: every response that has a header block carries the three CORS
\* headers with exactly the documented values, whatever the method and status;
\* a response has no header block (only a body) exactly when the handler treats
\* the request as HTTP/0.9.
C1_HeaderBlocksCarryCors ==
  (pc = "handled" /\ Responded(h)) =>
     IF h.request_version = "HTTP/0.9"
       THEN h.head = <<>>
       ELSE h.head # <<>> /\ CarriesCors(h)

C1_Witness ==
  /\ pc = "handled"
  /\ req.words = <<"OPTIONS", "/a.txt", "HTTP/1.1">>
  /\ StatusLine(h)[2] = "501"
  /\ CarriesCors(h)

\* a request the server accepts, by GET or HEAD, for the existing file a.txt
ValidFileRequest(r) ==
  /\ ~r.long
  /\ Len(r.words) \in {2, 3}
  /\ r.words[1] \in {"GET", "HEAD"}
  /\ r.words[2] = "/a.txt"
  /\ Len(r.words) = 3 => r.words[3] \in {"HTTP/0.9", "HTTP/1.0", "HTTP/1.1"}

SameButCors(hd, simple) ==
  /\ StatusLine(hd) = StatusLine(simple)
  /\ hd.body = simple.body
  /\ HeaderList(hd) = HeaderList(simple) \o CorsHeaderSet

\* C2 as stated: for a valid request to an existing file, status and body are
\* those of the static file handler alone and the header list is that handler's
\* list plus exactly the three CORS headers, each once.
C2_SimpleResponsePlusCors ==
  (pc = "handled" /\ ValidFileRequest(req)) => SameButCors(h, SimpleHandler(req))

\* C2 amended: the same, for a valid request to an existing file that is not
\* handled as HTTP/0.9 (so that the response has a header block).
C2_SimpleResponsePlusCorsWithHeaders ==
  (pc = "handled" /\ ValidFileRequest(req) /\ h.request_version # "HTTP/0.9")
     => SameButCors(h, SimpleHandler(req))

C2_Witness ==
  /\ pc = "handled"
  /\ req = [long |-> FALSE, words |-> <<"GET", "/a.txt", "HTTP/1.1">>, ims |-> "absent"]
  /\ StatusLine(h) = <<"HTTP/1.0", "200", "OK">>
  /\ h.body = <<<<"file", "/a.txt">>>>
  /\ Len(HeaderList(h)) = Len(HeaderList(SimpleHandler(req))) + 3

ShutdownLine == Line("Shutting down...", <<>>)

\* C3 as stated: an interrupt at any point after the bind makes the process
\* print the shutdown message, close the listening socket and exit with status
\* 0, and after the accept loop is entered only the interrupt ends the process.
C3_InterruptShutsDownCleanly ==
  /\ (pc = "exited" /\ interruptAt # "") =>
        /\ ShutdownLine \in Range(stdout)
        /\ sock = "closed"
        /\ exitCode = 0
  /\ (pc = "exited" /\ Happened("serve_forever")) => interruptAt # ""

\* C4: when the directory does not exist main exits non-zero with a message,
\* and no socket is created or bound, no banner is printed and address
\* discovery is not run.
C4_MissingDirExitsBeforeBind ==
  (Happened("validate") /\ ~dirExists) =>
     /\ pc = "exited"
     /\ exitCode \notin {0, -1}
     /\ stderr = "Directory not found"
     /\ sock = "none" /\ ~sockCreated /\ ~bindCalled
     /\ stdout = <<>>
     /\ ~Happened("discover") /\ ips = <<>>

C4_Witness == pc = "exited" /\ Happened("validate") /\ ~dirExists /\ exitCode = 1

\* C5 as stated: with --port 0 or a port already in use, startup fails with a
\* non-zero exit, the accept loop is never entered and no listening socket of
\* this process stays open.
C5_PortZeroOrInUseFailsStartup ==
  (bindCalled /\ (port = 0 \/ port \in InUsePorts)) =>
     /\ pc = "exited"
     /\ exitCode \notin {0, -1}
     /\ sock # "listening"
     /\ ~Happened("serve_forever")

\* C6 as stated: a --port value that is not an integer, is negative or is above
\* 65535 ends main with a usage error from argument validation, and no such
\* value reaches the bind call.
C6_InvalidPortNeverReachesBind ==
  (sockCreated \/ bindCalled) => port \in BindablePorts

NonLoopback(addrs) == {inet_ntoa(a) : a \in {b \in addrs : b[1] # 127}}

LanTexts == {"Local network URLs:", "  http://{ip}:{port}/"}

\* C7: no failure of either discovery step leaves _local_ips: a failing step
\* adds no address, the other step's addresses are still returned, and when
\* both fail the list is empty and no LAN URL is printed.
C7_DiscoverySwallowsFailures ==
  Happened("discover") =>
     /\ ~(pc = "exited" /\ stderr \in StepErrors)
     /\ net.host.exc # "none" => Range(ips) = NonLoopback(net.udp.addrs)
     /\ net.udp.exc # "none" => Range(ips) = NonLoopback(net.host.addrs)
     /\ (net.host.exc # "none" /\ net.udp.exc # "none") =>
           /\ ips = <<>>
           /\ \A i \in 1..Len(stdout) : stdout[i].text \notin LanTexts

C7_Witness ==
  /\ pc = "serve"
  /\ net.host.exc = "gaierror"
  /\ net.udp.exc = "none"
  /\ ips = <<inet_ntoa(<<9, 0, 0, 2>>)>>

AccessFormat == "\"%s\" %s %s"

ErrorFormat == "code %d, message %s"

\* the line is the time followed by the request line as received and the status
IsAccessLine(l, r, hd) ==
  /\ l.stream = "stdout"
  /\ l.prefix = <<"log_date_time_string">>
  /\ l.format = AccessFormat
  /\ l.args[1] = (IF r.long THEN <<>> ELSE r.words)
  /\ hd.head # <<>> => l.args[2] = <<StatusLine(hd)[2]>>

IsErrorLine(l, access) ==
  /\ l.stream = "stdout"
  /\ l.prefix = <<"log_date_time_string">>
  /\ l.format = ErrorFormat
  /\ l.args[1] = access.args[2]

ErrorStatus(l) == l.args[2] \in {<<"400">>, <<"404">>, <<"414">>, <<"501">>, <<"505">>}

AllLoopback == {inet_ntoa(a) : a \in {b \in HostAddrs \cup UdpAddrs : b[1] = 127}}

\* C9: the list _local_ips returns is strictly ascending (as strings), has no
\* duplicate and no 127.0.0.0/8 address, and its elements are exactly the
\* non-loopback addresses of the hostname together with the non-loopback
\* local address of the UDP socket; an address both steps report appears once.
C9_SortedUnionOfNonLoopback ==
  Happened("discover") =>
     /\ \A i, j \in 1..Len(ips) : i < j => StrLess(ips[i], ips[j])
     /\ \A i, j \in 1..Len(ips) : i # j => ips[i] # ips[j]
     /\ Range(ips) \cap AllLoopback = {}
     /\ Range(ips) = NonLoopback(net.host.addrs) \cup NonLoopback(net.udp.addrs)

C9_Witness ==
  /\ Happened("discover")
  /\ net.host.addrs = {<<127, 0, 1, 1>>, <<10, 0, 0, 5>>, <<12, 7, 0, 1>>}
  /\ net.udp.addrs = {<<10, 0, 0, 5>>}
  /\ ips = <<inet_ntoa(<<10, 0, 0, 5>>), inet_ntoa(<<12, 7, 0, 1>>)>>

StartupOrder ==
  <<"validate", "bind", "url", "discover", "lan", "instruction", "serve_forever">>

IsPrefix(p, q) == Len(p) <= Len(q) /\ SubSeq(q, 1, Len(p)) = p

\* the banner: the serving URL, the LAN block for the list found, the
\* instruction line
BannerComplete ==
  /\ Len(stdout) >= 2
  /\ stdout[1].text = "Serving {root} at http://{host}:{port}/"
  /\ LET k == IF ips = <<>> THEN 2 ELSE Len(ips) + 3
     IN /\ Len(stdout) >= k
        /\ stdout[k].text = "Press Ctrl+C to stop."
        /\ ips # <<>> =>
             /\ stdout[2].text = "Local network URLs:"
             /\ \A i \in 1..Len(ips) : stdout[i + 2].arg = <<ips[i], port>>

\* C10: the startup events happen in the order validation, bind, serving URL,
\* discovery and LAN lines, instruction line, accept loop; no connection is
\* handled before the banner is complete, nothing is printed when the bind
\* fails, and no result or failure of address discovery keeps main from the
\* accept loop.
C10_StartupOrder ==
  /\ IsPrefix(events, StartupOrder)
  /\ (handled > 0 \/ pc \in {"serve", "handled"}) =>
        (events = StartupOrder /\ BannerComplete)
  /\ (bindCalled /\ ~Happened("bind")) => (stdout = <<>> /\ pc = "exited")
  /\ (Happened("discover") /\ pc = "exited") => interruptAt # ""
  /\ pc = "lan" => ENABLED PrintLan
  /\ pc = "instruct" => ENABLED PrintInstruction
  /\ pc = "loop" => ENABLED ServeForever

C10_Witness ==
  /\ pc = "handled"
  /\ net.host.exc # "none"
  /\ net.udp.exc # "none"
  /\ events = StartupOrder
  /\ Len(stdout) = 2

====
